---- MODULE Spec2Model ----
(***************************************************************************)
(* SmartSpend: the client-side State Store (App), the Expense Intake       *)
(* Pipeline (ChatInterface.handleSend + App.handleAddExpense), the budget  *)
(* operations, the full wipe, the auth callback and the persistence        *)
(* collaborator (apiService over the database).                            *)
(*                                                                         *)
(* Every asynchronous boundary of the code (an await on the parser, on a   *)
(* persistence call, a fire-and-forget mirror call) is a point where the   *)
(* model lets other events run, as the browser's event loop does.          *)
(***************************************************************************)
EXTENDS Integers, Sequences, FiniteSets, TLC

(* ------------------------------- bounds -------------------------------- *)
\* number of sends (handleSend invocations) of one run
MaxSends == 2
\* number of fire-and-forget persistence calls that may be in flight at once
MaxNet == 1

\* length of the expense list the Dashboard is given
MaxExpenses == 2

SendIds == 1..MaxSends

(* --------------------------- program constants -------------------------- *)
\* src/unnamed/part_000:3-11
DEFAULT_BUDGETS ==
    << [category |-> "Food",          limit |-> 15000],
       [category |-> "Transport",     limit |-> 5000],
       [category |-> "Bills",         limit |-> 10000],
       [category |-> "Shopping",      limit |-> 8000],
       [category |-> "Health",        limit |-> 5000],
       [category |-> "Entertainment", limit |-> 5000],
       [category |-> "Other",         limit |-> 5000] >>

\* the assistant texts of handleSend / handleAddExpense / handleClearData / fetchState
ParseFailText == "I couldn't catch that amount. Try saying 'Spent 500 on lunch'."
SaveErrorText == "I couldn't save that expense. Please check your connection."
AddErrorText  == "Something went wrong while adding the expense."
GotItText     == "Got it!"
WipeText      == "All your data has been wiped. Let's start fresh."
GreetingText  == "Hi! I'm SmartSpend."

(* ------------------------------ input sets ------------------------------ *)
\* what the user types or says
UserTexts == {"spent 2000 on lunch"}
\* texts with nothing to send: an empty input, an input of spaces
BlankTexts == {"", "   "}
SendTexts == UserTexts \cup BlankTexts
\* what the settings screen passes to onUpdateBudget
UpsertCategories == {"Food", "food"}
UpsertLimits == {2000}
\* what the parser may answer: null, or an object whose amount is a number or
\* is missing (a JavaScript value is modelled with its typeof)
ParsedAmounts == {[type |-> "number", value |-> 2000],
                  [type |-> "undefined", value |-> 0]}
ParsedCategories == {"Food"}
ParsedDates == {"2026-11-02", "2026-10-15", "soon"}
NullResult == [isNull |-> TRUE, amount |-> [type |-> "undefined", value |-> 0],
               category |-> "", description |-> "", date |-> ""]
ParserResults ==
    {NullResult} \cup
    {[isNull |-> FALSE, amount |-> a, category |-> c, description |-> "lunch", date |-> d] :
        a \in ParsedAmounts, c \in ParsedCategories, d \in ParsedDates}

\* answers whose amount is a number that is not positive (the schema asks for a
\* NUMBER, the sign is up to the model that parses)
NonPositiveAmounts == {[type |-> "number", value |-> 0],
                       [type |-> "number", value |-> -500]}
ChatParserResults ==
    ParserResults \cup
    {[isNull |-> FALSE, amount |-> a, category |-> "Food", description |-> "refund",
      date |-> "2026-11-02"] : a \in NonPositiveAmounts}

\* the current local date: new Date()
Today == [year |-> 2026, month |-> 10, day |-> 2]

(* ------------------------------ pure helpers ---------------------------- *)
\* String.prototype.toLowerCase on the category names of the model
toLowerCase(s) ==
    CASE s = "Food"          -> "food"
      [] s = "Transport"     -> "transport"
      [] s = "Bills"         -> "bills"
      [] s = "Shopping"      -> "shopping"
      [] s = "Health"        -> "health"
      [] s = "Entertainment" -> "entertainment"
      [] s = "Other"         -> "other"
      [] OTHER               -> s

\* new Date(str) is a valid date (toISOString does not throw)
IsValidDate(str) == str \in {"2026-11-02", "2026-10-15"}

\* new Date(str): the calendar date of a date string (getMonth is 0-based)
NewDate(str) ==
    CASE str = "2026-11-02" -> [year |-> 2026, month |-> 10, day |-> 2]
      [] str = "2026-10-15" -> [year |-> 2026, month |-> 9,  day |-> 15]
      [] OTHER              -> Today

getMonth(d) == d.month
getFullYear(d) == d.year

\* expenses.reduce((sum, e) => sum + e.amount, 0)
RECURSIVE SumAmounts(_)
SumAmounts(seq) ==
    IF seq = <<>> THEN 0 ELSE Head(seq).amount + SumAmounts(Tail(seq))

\* Array.prototype.findIndex with the case-insensitive test of handleUpdateBudget;
\* 0 stands for JavaScript's -1
findIndexIgnoreCase(budgets, category) ==
    LET hits == {i \in 1..Len(budgets) :
                    toLowerCase(budgets[i].category) = toLowerCase(category)}
    IN IF hits = {} THEN 0 ELSE CHOOSE i \in hits : \A j \in hits : i <= j

\* budgets.find(b => b.category === category)?.limit || 0
limitOf(budgets, category) ==
    LET hits == {i \in 1..Len(budgets) : budgets[i].category = category}
    IN IF hits = {} THEN 0
       ELSE budgets[CHOOSE i \in hits : \A j \in hits : i <= j].limit

\* a variant of spentBefore: the year of the expense is not looked at
spentBefore_MonthOnly(expenses, category) ==
    SumAmounts(SelectSeq(expenses, LAMBDA e :
        /\ e.category = category
        /\ getMonth(e.date) = getMonth(Today)))

\* handleAddExpense: the spend of a category in the current month
\* (filter on category, getMonth and getFullYear, then reduce)
spentBefore(expenses, category) ==
    SumAmounts(SelectSeq(expenses, LAMBDA e :
        /\ e.category = category
        /\ getMonth(e.date) = getMonth(Today)
        /\ getFullYear(e.date) = getFullYear(Today)))

\* handleAddExpense: budgetLimit - (spentBefore + expenseData.amount)
budgetLeftOf(expenses, budgets, category, amount) ==
    limitOf(budgets, category) - (spentBefore(expenses, category) + amount)

\* a variant of upsertBudget: the existing entry is looked up with ===
upsertBudget_CaseSensitive(budgets, category, limit) ==
    LET hits == {i \in 1..Len(budgets) : budgets[i].category = category}
    IN IF hits # {}
       THEN [i \in 1..Len(budgets) |->
                IF i \in hits THEN [category |-> budgets[i].category, limit |-> limit]
                ELSE budgets[i]]
       ELSE Append(budgets, [category |-> category, limit |-> limit])

\* handleUpdateBudget: the updater's newBudgets
upsertBudget(budgets, category, limit) ==
    LET existingIndex == findIndexIgnoreCase(budgets, category)
    IN IF existingIndex > 0
       THEN [i \in 1..Len(budgets) |->
                IF i = existingIndex
                THEN [category |-> budgets[i].category, limit |-> limit]
                ELSE budgets[i]]
       ELSE Append(budgets, [category |-> category, limit |-> limit])

\* a variant of removeBudget: the filter compares the lower-cased names
removeBudget_IgnoreCase(budgets, category) ==
    SelectSeq(budgets, LAMBDA b : toLowerCase(b.category) # toLowerCase(category))

\* handleDeleteBudget: prev.budgets.filter(b => b.category !== category)
removeBudget(budgets, category) ==
    SelectSeq(budgets, LAMBDA b : b.category # category)

\* the budgets table after .upsert(rows, {onConflict: 'user_id,category'}):
\* a row with the same (case-sensitive) category is overwritten, others are inserted
RECURSIVE dbUpsertBudgets(_, _)
dbUpsertBudgets(table, rows) ==
    IF rows = <<>> THEN table
    ELSE LET r == Head(rows)
             hits == {i \in 1..Len(table) : table[i].category = r.category}
             next == IF hits = {}
                     THEN Append(table, r)
                     ELSE [i \in 1..Len(table) |-> IF i \in hits THEN r ELSE table[i]]
         IN dbUpsertBudgets(next, Tail(rows))

\* the budgets table after .delete().eq('user_id', ..).eq('category', category)
dbDeleteBudget(table, category) ==
    SelectSeq(table, LAMBDA row : row.category # category)

\* .order('timestamp', {ascending: true}) over the chat_history rows
RECURSIVE orderByTimestamp(_)
orderByTimestamp(rows) ==
    IF rows = {} THEN <<>>
    ELSE LET m == CHOOSE x \in rows : \A y \in rows : x.ts <= y.ts
         IN <<m>> \o orderByTimestamp(rows \ {m})

(* ------------------------------- messages ------------------------------- *)
\* a ChatMessage; meta is <<>> or <<addedExpense, budgetLeft>>.  ts orders the
\* messages the sends create; the greeting and the wipe confirmation, which are
\* never written to persistence, carry 0
Message(role, text, ts, meta) ==
    [role |-> role, text |-> text, ts |-> ts, meta |-> meta]

\* the state of the App before any data: useState initial value, and the reset
\* of the auth callback
EmptyState ==
    [expenses |-> <<>>, budgets |-> DEFAULT_BUDGETS, chatHistory |-> <<>>]

(* --------------------------------- state -------------------------------- *)
VARIABLES
    session,    \* the auth collaborator holds a session (getUser() returns a user)
    user,       \* App: user state is not null
    isLoading,  \* App: isLoading
    activeTab,  \* App: activeTab
    state,      \* App: state {expenses, budgets, chatHistory}
    db,         \* persistence: the user's rows of expenses, budgets, chat_history
    sends,      \* the handleSend invocations, each with its position and closure
    load,       \* the loadAppData invocation in progress
    wipe,       \* the handleClearData invocation in progress
    net,        \* fire-and-forget persistence calls not yet executed
    chatProps,  \* the addExpense closure the mounted ChatInterface took at mount
    clock,      \* logical time of the chat messages' timestamps
    boot,       \* initializeApp has not / has run
    budgetLog,  \* history: the last budget operations (a delete, then a re-add)
    isTyping,   \* ChatInterface: isTyping of the mounted ChatInterface
    mountedSends, \* the sends the mounted ChatInterface started and awaits
    props,      \* Dashboard: the props {expenses, budgets} of the current render
    startDate,  \* Dashboard: startDate ('' when not set)
    endDate,    \* Dashboard: endDate ('' when not set)
    now,        \* the browser's clock: new Date()
    timezone,   \* the browser's time zone: hours ahead of UTC
    view        \* Dashboard: what the current render computed and shows

\* the variables of the App and of persistence
appVars == <<session, user, isLoading, activeTab, state, db, sends, load, wipe, net,
             chatProps, clock, boot, budgetLog, isTyping, mountedSends>>

\* the variables of the Dashboard and of its environment
dashVars == <<props, startDate, endDate, now, timezone, view>>

vars == <<session, user, isLoading, activeTab, state, db, sends, load, wipe, net,
          chatProps, clock, boot, budgetLog, isTyping, mountedSends,
          props, startDate, endDate, now, timezone, view>>

\* budgetLog: deleted is the category of a delete that no other budget operation
\* has followed; readded and limit are those of the upsert that followed a delete
\* of the same category, until the next budget operation, wipe or sign-out
NoLog == [deleted |-> "", readded |-> "", limit |-> 0]

\* placeholders of the fields a send or a load does not hold yet
NoParsed  == [amount |-> 0, category |-> "", description |-> "", date |-> ""]
NoExpense == [id |-> 0, amount |-> 0, category |-> "", description |-> "", date |-> Today]
IdleSend  == [pc |-> "idle", expenses |-> <<>>, budgets |-> <<>>, parsed |-> NoParsed,
              saved |-> NoExpense]
DoneSend  == [pc |-> "done", expenses |-> <<>>, budgets |-> <<>>, parsed |-> NoParsed,
              saved |-> NoExpense]
IdleLoad  == [pc |-> "idle", data |-> EmptyState]

(* ------------------------------- Dashboard ------------------------------ *)
\* A Date is modelled by its UTC calendar fields (month 0-based, as getMonth
\* counts) and the hour; frac is 1 for 59 min 59.999 s past the hour, which is
\* what setHours(23, 59, 59, 999) sets, and 0 otherwise.
UtcDate(year, month, day, hour) ==
    [year |-> year, month |-> month, day |-> day, hour |-> hour, frac |-> 0]

\* the created_at strings of the expense rows (timestamps with a time of day)
ExpenseDates ==
    {"2026-11-02T15:00:00Z", "2026-11-01T21:00:00Z", "2026-10-31T22:00:00Z",
     "2025-11-15T12:00:00Z", "2025-12-20T12:00:00Z"}
\* the values of the two date inputs: '' or YYYY-MM-DD
FilterDates == {"", "2026-11-02"}
\* the clock and the time zone of the browser
NowInstants == {UtcDate(2026, 10, 2, 12), UtcDate(2026, 1, 10, 12)}
Timezones == {-5, 0, 5}

\* new Date(str): an ISO timestamp is that instant; the date-only form
\* YYYY-MM-DD is midnight UTC of that day
DateParse(str) ==
    CASE str = "2026-11-02T15:00:00Z" -> UtcDate(2026, 10, 2, 15)
      [] str = "2026-11-01T21:00:00Z" -> UtcDate(2026, 10, 1, 21)
      [] str = "2026-10-31T22:00:00Z" -> UtcDate(2026, 9, 31, 22)
      [] str = "2025-11-15T12:00:00Z" -> UtcDate(2025, 10, 15, 12)
      [] str = "2025-12-20T12:00:00Z" -> UtcDate(2025, 11, 20, 12)
      [] str = "2026-11-02"           -> UtcDate(2026, 10, 2, 0)

\* new Date(0)
Epoch == UtcDate(1970, 0, 1, 0)

\* the days of a month (month 0-based)
DaysInMonth(year, month) ==
    IF month = 1
    THEN IF year % 4 = 0 /\ (year % 100 # 0 \/ year % 400 = 0) THEN 29 ELSE 28
    ELSE IF month \in {3, 5, 8, 10} THEN 30 ELSE 31

\* the local calendar fields of a Date, which getMonth, getFullYear and setHours
\* work on: the UTC fields moved by the zone's offset
toLocal(d) ==
    LET h == d.hour + timezone
    IN IF h >= 24
       THEN IF d.day < DaysInMonth(d.year, d.month)
            THEN [d EXCEPT !.day = @ + 1, !.hour = h - 24]
            ELSE IF d.month < 11
            THEN [d EXCEPT !.month = @ + 1, !.day = 1, !.hour = h - 24]
            ELSE [d EXCEPT !.year = @ + 1, !.month = 0, !.day = 1, !.hour = h - 24]
       ELSE IF h < 0
       THEN IF d.day > 1
            THEN [d EXCEPT !.day = @ - 1, !.hour = h + 24]
            ELSE IF d.month > 0
            THEN [d EXCEPT !.month = @ - 1, !.day = DaysInMonth(d.year, d.month - 1),
                           !.hour = h + 24]
            ELSE [d EXCEPT !.year = @ - 1, !.month = 11, !.day = 31, !.hour = h + 24]
       ELSE [d EXCEPT !.hour = h]

\* end.setHours(23, 59, 59, 999): the last instant of the Date's local day
\* (given and returned in local fields)
setHoursEndOfDay(local) == [local EXCEPT !.hour = 23, !.frac = 1]

\* the order of two Dates (d >= start, d <= end compare their time values),
\* read off their local fields: the same offset moved both
TimeValue(local) ==
    ((((local.year * 12 + local.month) * 31 + local.day) * 24) + local.hour) * 2
        + local.frac

\* Dashboard.filteredExpenses: without a range the expenses of the current
\* month; with one those from start (or new Date(0)) to the end of the day of
\* end (or of now)
filteredExpenses(expenses, startStr, endStr) ==
    IF startStr = "" /\ endStr = ""
    THEN SelectSeq(expenses, LAMBDA e :
            LET d == toLocal(DateParse(e.date))
            IN getMonth(d) = getMonth(toLocal(now))
               /\ getFullYear(d) = getFullYear(toLocal(now)))
    ELSE SelectSeq(expenses, LAMBDA e :
            LET d == toLocal(DateParse(e.date))
                start == toLocal(IF startStr # "" THEN DateParse(startStr) ELSE Epoch)
                end == setHoursEndOfDay(
                           toLocal(IF endStr # "" THEN DateParse(endStr) ELSE now))
            IN TimeValue(d) >= TimeValue(start) /\ TimeValue(d) <= TimeValue(end))

\* budgets.reduce((sum, b) => sum + b.limit, 0)
RECURSIVE SumLimits(_)
SumLimits(seq) ==
    IF seq = <<>> THEN 0 ELSE Head(seq).limit + SumLimits(Tail(seq))

\* Array.from(new Set(array)): the first occurrence of every value, in order
RECURSIVE ArrayFromSet(_)
ArrayFromSet(seq) ==
    IF seq = <<>> THEN <<>>
    ELSE LET front == ArrayFromSet(SubSeq(seq, 1, Len(seq) - 1))
             x == seq[Len(seq)]
         IN IF \E i \in 1..Len(front) : front[i] = x THEN front ELSE Append(front, x)

\* the spend of one category: filteredExpenses.filter(e => e.category === cat)
\* .reduce(...)
categorySpent(filtered, cat) ==
    SumAmounts(SelectSeq(filtered, LAMBDA e : e.category = cat))

\* a variant of categoryData: only the budget categories are listed
categoryData_BudgetCategoriesOnly(filtered, budgets) ==
    LET categories == ArrayFromSet([i \in 1..Len(budgets) |-> budgets[i].category])
        data == [i \in 1..Len(categories) |->
                    [name |-> categories[i],
                     value |-> categorySpent(filtered, categories[i])]]
    IN SelectSeq(data, LAMBDA d : d.value > 0)

\* a variant of categoryData: the entries without spend are kept
categoryData_KeepsZero(filtered, budgets) ==
    LET categories == ArrayFromSet(
            [i \in 1..Len(budgets) |-> budgets[i].category]
            \o [i \in 1..Len(filtered) |-> filtered[i].category])
    IN [i \in 1..Len(categories) |->
            [name |-> categories[i], value |-> categorySpent(filtered, categories[i])]]

\* Dashboard.categoryData
categoryData(filtered, budgets) ==
    LET categories == ArrayFromSet(
            [i \in 1..Len(budgets) |-> budgets[i].category]
            \o [i \in 1..Len(filtered) |-> filtered[i].category])
        data == [i \in 1..Len(categories) |->
                    [name |-> categories[i],
                     value |-> categorySpent(filtered, categories[i])]]
    IN SelectSeq(data, LAMBDA d : d.value > 0)

\* d.toLocaleString('default', {month: 'short'})
MonthName(month) ==
    <<"Jan", "Feb", "Mar", "Apr", "May", "Jun",
      "Jul", "Aug", "Sep", "Oct", "Nov", "Dec">>[month + 1]

\* a variant of MonthStart: the month wraps around but the year is not carried
MonthStart_NoYearCarry(year, month) ==
    [year |-> year, month |-> month % 12, day |-> 1, hour |-> 0, frac |-> 0]

\* new Date(year, month, 1) in local fields: a month outside 0..11 is carried
\* into the year
MonthStart(year, month) ==
    [year |-> (year * 12 + month) \div 12, month |-> (year * 12 + month) % 12,
     day |-> 1, hour |-> 0, frac |-> 0]

\* Dashboard.trendData: the loop from i = 4 down to 0
trendData(expenses) ==
    [k \in 1..5 |->
        LET i == 5 - k
            d == MonthStart(getFullYear(toLocal(now)), getMonth(toLocal(now)) - i)
        IN [name |-> MonthName(getMonth(d)),
            spent |-> SumAmounts(SelectSeq(expenses, LAMBDA e :
                        LET ed == toLocal(DateParse(e.date))
                        IN getMonth(ed) = getMonth(d)
                           /\ getFullYear(ed) = getFullYear(d)))]]

\* Math.max(0, currentBalance), the remaining budget the hero card shows
shownBalance(currentBalance) == IF currentBalance > 0 THEN currentBalance ELSE 0

\* a variant of overBudget: the test is made on the value shown
overBudget_OfShownValue(currentBalance) == shownBalance(currentBalance) < 0

\* currentBalance < 0, which turns the remaining budget red
overBudget(currentBalance) == currentBalance < 0

\* one render of the Dashboard: its useMemo values and what the hero card shows
Render(p, startStr, endStr) ==
    LET filtered == filteredExpenses(p.expenses, startStr, endStr)
        totalSpent == SumAmounts(filtered)
        totalBudget == SumLimits(p.budgets)
        currentBalance == totalBudget - totalSpent
    IN [filteredExpenses |-> filtered,
        totalSpent |-> totalSpent,
        totalBudget |-> totalBudget,
        currentBalance |-> currentBalance,
        categoryData |-> categoryData(filtered, p.budgets),
        trendData |-> trendData(p.expenses),
        shownBalance |-> shownBalance(currentBalance),
        overBudget |-> overBudget(currentBalance)]

\* the expenses the Dashboard is given: rows of the expenses table as fetchState
\* and saveExpense return them (amounts are not validated: 0 and a negative
\* amount are accepted like any number)
ExpensePool ==
    { [id |-> 11, amount |-> 2000,  category |-> "Food",      description |-> "lunch",
       date |-> "2026-11-02T15:00:00Z"],
      [id |-> 12, amount |-> 60000, category |-> "Food",      description |-> "party",
       date |-> "2026-11-01T21:00:00Z"],
      [id |-> 13, amount |-> 500,   category |-> "Gym",       description |-> "pass",
       date |-> "2026-10-31T22:00:00Z"],
      [id |-> 14, amount |-> 0,     category |-> "Gym",       description |-> "trial",
       date |-> "2026-11-02T15:00:00Z"],
      [id |-> 15, amount |-> -500,  category |-> "Other",     description |-> "refund",
       date |-> "2026-11-02T15:00:00Z"],
      [id |-> 16, amount |-> 2000,  category |-> "Food",      description |-> "lunch",
       date |-> "2025-11-15T12:00:00Z"],
      [id |-> 17, amount |-> 700,   category |-> "Transport", description |-> "taxi",
       date |-> "2025-12-20T12:00:00Z"] }

\* the budget lists the Dashboard is given: none, the default set, and a list
\* with names that differ in case only
BudgetLists ==
    { <<>>, DEFAULT_BUDGETS,
      <<[category |-> "Food", limit |-> 15000], [category |-> "food", limit |-> 2000]>> }

\* the Dashboard is not rendered
DashboardUnmounted ==
    /\ props = [expenses |-> <<>>, budgets |-> DEFAULT_BUDGETS]
    /\ startDate = ""
    /\ endDate = ""
    /\ now = UtcDate(2026, 10, 2, 12)
    /\ timezone = 0
    /\ view = Render(props, startDate, endDate)

\* the rows persistence holds for the user when the application starts: none,
\* or those of an earlier session (one expense of this month and its reply)
NewUserDb == [expenses |-> <<>>, budgets |-> <<>>, chat |-> {}, nextId |-> 1]
EarlierExpense ==
    [id |-> 1, amount |-> 12000, category |-> "Food", description |-> "rent",
     date |-> Today]
ReturningUserDb ==
    [expenses |-> <<EarlierExpense>>, budgets |-> <<>>,
     chat |-> {Message("assistant", GotItText, 0, <<EarlierExpense, 3000>>)},
     nextId |-> 2]

Init ==
    /\ session \in BOOLEAN
    /\ user = FALSE
    /\ isLoading = TRUE
    /\ activeTab = "chat"
    /\ state = EmptyState
    /\ db \in {NewUserDb, ReturningUserDb}
    /\ sends = [s \in SendIds |-> IdleSend]
    /\ load = IdleLoad
    /\ wipe = "idle"
    /\ net = <<>>
    /\ chatProps = [expenses |-> <<>>, budgets |-> DEFAULT_BUDGETS]
    /\ clock = 1
    /\ boot = "start"
    /\ budgetLog = NoLog
    /\ isTyping = FALSE
    /\ mountedSends = {}
    /\ DashboardUnmounted

\* a user with no rows in persistence yet
InitNewUser == Init /\ db = NewUserDb

\* the authenticated screens are rendered (App's render: not loading, a user)
UIVisible == user /\ ~isLoading
\* the ChatInterface is mounted
ChatVisible == UIVisible /\ activeTab = "chat"

\* ChatInterface's mount effect (useEffect with no dependencies) keeps the
\* handleSend, and so the addExpense closure, of the render it mounted in
MountEffect ==
    chatProps' = IF ChatVisible' /\ ~ChatVisible
                 THEN [expenses |-> state'.expenses, budgets |-> state'.budgets]
                 ELSE chatProps

\* ChatInterface's local state lives as long as its mount: a ChatInterface that
\* mounts starts with isTyping false (useState(false)) and awaits no send; the
\* sends of an unmounted one go on, their setIsTyping reaches nothing
MountState ==
    /\ isTyping' = IF ChatVisible /\ ChatVisible' THEN isTyping ELSE FALSE
    /\ mountedSends' = IF ChatVisible /\ ChatVisible' THEN mountedSends ELSE {}

(* --------------------------- persistence reads -------------------------- *)
\* apiService.fetchState: what it returns when it runs now
defaultState ==
    [expenses |-> <<>>, budgets |-> DEFAULT_BUDGETS,
     chatHistory |-> <<Message("assistant", GreetingText, 0, <<>>)>>]

\* a variant of fetchState: the budget rows are returned as they are, the
\* default set is not substituted for an empty result
fetchState_NoDefaultBudgets(expError) ==
    IF ~session \/ expError THEN defaultState
    ELSE [expenses |-> db.expenses,
          budgets |-> db.budgets,
          chatHistory |-> IF db.chat # {} THEN orderByTimestamp(db.chat)
                          ELSE defaultState.chatHistory]

\* apiService.fetchState
fetchState(expError) ==
    IF ~session \/ expError THEN defaultState
    ELSE [expenses |-> db.expenses,
          budgets |-> IF Len(db.budgets) > 0 THEN db.budgets ELSE DEFAULT_BUDGETS,
          chatHistory |-> IF db.chat # {} THEN orderByTimestamp(db.chat)
                          ELSE defaultState.chatHistory]

(* ------------------------------ start-up -------------------------------- *)
\* loadAppData up to its await: setIsLoading(true), fetchState() called
StartLoad ==
    /\ isLoading' = TRUE
    /\ load' = [pc |-> "fetching", data |-> EmptyState]

\* a variant of InitializeApp: after the sign-out of the error branch the
\* setIsLoading(false) is forgotten
InitializeApp_ErrorKeepsLoading(sessionError) ==
    /\ boot = "start"
    /\ boot' = "done"
    /\ IF sessionError
       THEN \* signOut(), setIsLoading(false); the auth callback resets the state
            /\ session' = FALSE
            /\ user' = FALSE
            /\ state' = EmptyState
            /\ UNCHANGED <<isLoading, load>>
       ELSE IF session
       THEN /\ user' = TRUE
            /\ StartLoad
            /\ UNCHANGED <<session, state>>
       ELSE /\ isLoading' = FALSE
            /\ UNCHANGED <<session, user, state, load>>
    /\ UNCHANGED <<activeTab, db, sends, wipe, net, clock>>
    /\ MountEffect
    /\ MountState
    /\ UNCHANGED budgetLog
    /\ UNCHANGED dashVars

\* initializeApp: getSession() answers a session, none, or an error
InitializeApp(sessionError) ==
    /\ boot = "start"
    /\ boot' = "done"
    /\ IF sessionError
       THEN \* signOut(), setIsLoading(false); the auth callback resets the state
            /\ session' = FALSE
            /\ user' = FALSE
            /\ state' = EmptyState
            /\ isLoading' = FALSE
            /\ UNCHANGED load
       ELSE IF session
       THEN /\ user' = TRUE
            /\ StartLoad
            /\ UNCHANGED <<session, state>>
       ELSE /\ isLoading' = FALSE
            /\ UNCHANGED <<session, user, state, load>>
    /\ UNCHANGED <<activeTab, db, sends, wipe, net, clock>>
    /\ MountEffect
    /\ MountState
    /\ UNCHANGED budgetLog
    /\ UNCHANGED dashVars

\* apiService.fetchState runs its queries
FetchState(expError) ==
    /\ load.pc = "fetching"
    /\ load' = [pc |-> "fetched", data |-> fetchState(expError)]
    /\ UNCHANGED <<session, user, isLoading, activeTab, state, db, sends, wipe, net,
                   chatProps, clock, boot>>
    /\ UNCHANGED budgetLog
    /\ UNCHANGED <<isTyping, mountedSends>>
    /\ UNCHANGED dashVars

\* loadAppData after its await: setState(data), setIsLoading(false)
LoadDone ==
    /\ load.pc = "fetched"
    /\ state' = load.data
    /\ isLoading' = FALSE
    /\ load' = IdleLoad
    /\ UNCHANGED <<session, user, activeTab, db, sends, wipe, net, clock, boot>>
    /\ MountEffect
    /\ MountState
    /\ UNCHANGED budgetLog
    /\ UNCHANGED dashVars

(* -------------------------------- auth ---------------------------------- *)
\* the onAuthStateChange callback with a session (sign-in, token refresh): the
\* user is set and loadAppData is called.  One load is followed at a time.
OnAuthSession ==
    /\ boot = "done"
    /\ load.pc = "idle"
    /\ session' = TRUE
    /\ user' = TRUE
    /\ StartLoad
    /\ UNCHANGED <<activeTab, state, db, sends, wipe, net, clock, boot>>
    /\ MountEffect
    /\ MountState
    /\ UNCHANGED budgetLog
    /\ UNCHANGED dashVars

\* a variant of OnAuthSignedOut: only the user is cleared, the state is kept
OnAuthSignedOut_KeepsState ==
    /\ boot = "done"
    /\ session
    /\ session' = FALSE
    /\ user' = FALSE
    /\ UNCHANGED <<state, isLoading, activeTab, db, sends, load, wipe, net, clock, boot>>
    /\ MountEffect
    /\ MountState
    /\ budgetLog' = NoLog
    /\ UNCHANGED dashVars

\* the onAuthStateChange callback without a session (handleLogout's signOut,
\* or the session ending)
OnAuthSignedOut ==
    /\ boot = "done"
    /\ session
    /\ session' = FALSE
    /\ user' = FALSE
    /\ state' = EmptyState
    /\ UNCHANGED <<isLoading, activeTab, db, sends, load, wipe, net, clock, boot>>
    /\ MountEffect
    /\ MountState
    /\ budgetLog' = NoLog
    /\ UNCHANGED dashVars

\* the navigation bar: setActiveTab(tab)
SetActiveTab(tab) ==
    /\ UIVisible
    /\ tab # activeTab
    /\ activeTab' = tab
    /\ UNCHANGED <<session, user, isLoading, state, db, sends, load, wipe, net,
                   clock, boot>>
    /\ MountEffect
    /\ MountState
    /\ UNCHANGED budgetLog
    /\ UNCHANGED dashVars

(* ----------------------- fire-and-forget mirror calls ------------------- *)
NoMessage == Message("", "", 0, <<>>)
SaveBudgetsCall(budgets) ==
    [op |-> "saveBudgets", budgets |-> budgets, category |-> "", message |-> NoMessage]
DeleteBudgetCall(category) ==
    [op |-> "deleteBudget", budgets |-> <<>>, category |-> category, message |-> NoMessage]
SaveChatMessageCall(message) ==
    [op |-> "saveChatMessage", budgets |-> <<>>, category |-> "", message |-> message]

\* room for one more call in flight
CanCall == Len(net) < MaxNet

\* the sequence without its i-th element
RemoveAt(seq, i) == [j \in 1..(Len(seq) - 1) |-> IF j < i THEN seq[j] ELSE seq[j + 1]]

\* a variant of applyCall: the rows are written whether or not there is a user
applyCall_NoUserCheck(call) ==
    CASE call.op = "saveBudgets" ->
            [db EXCEPT !.budgets = dbUpsertBudgets(db.budgets, call.budgets)]
      [] call.op = "deleteBudget" ->
            [db EXCEPT !.budgets = dbDeleteBudget(db.budgets, call.category)]
      [] OTHER ->
            [db EXCEPT !.chat = db.chat \cup {call.message}]

\* apiService.saveBudgets / deleteBudget / saveChatMessage on the tables
applyCall(call) ==
    IF ~session THEN db
    ELSE CASE call.op = "saveBudgets" ->
                [db EXCEPT !.budgets = dbUpsertBudgets(db.budgets, call.budgets)]
           [] call.op = "deleteBudget" ->
                [db EXCEPT !.budgets = dbDeleteBudget(db.budgets, call.category)]
           [] OTHER ->
                [db EXCEPT !.chat = db.chat \cup {call.message}]

\* a mirror call reaches persistence and is executed
MirrorDone(i) ==
    /\ i \in 1..Len(net)
    /\ db' = applyCall(net[i])
    /\ net' = RemoveAt(net, i)
    /\ UNCHANGED <<session, user, isLoading, activeTab, state, sends, load, wipe,
                   chatProps, clock, boot>>
    /\ UNCHANGED budgetLog
    /\ UNCHANGED <<isTyping, mountedSends>>
    /\ UNCHANGED dashVars

\* a variant of MirrorFail: the failure takes the in-memory change back (the
\* message is removed from the chat, the budgets fall back to the defaults)
MirrorFail_RollsBack(i) ==
    /\ i \in 1..Len(net)
    /\ net' = RemoveAt(net, i)
    /\ state' = IF net[i].op = "saveChatMessage"
                THEN [state EXCEPT !.chatHistory =
                         SelectSeq(@, LAMBDA m : m # net[i].message)]
                ELSE [state EXCEPT !.budgets = DEFAULT_BUDGETS]
    /\ UNCHANGED <<session, user, isLoading, activeTab, db, sends, load, wipe,
                   chatProps, clock, boot>>
    /\ UNCHANGED budgetLog
    /\ UNCHANGED <<isTyping, mountedSends>>
    /\ UNCHANGED dashVars

\* a mirror call fails (network or database error): the catch only logs it
MirrorFail(i) ==
    /\ i \in 1..Len(net)
    /\ net' = RemoveAt(net, i)
    /\ UNCHANGED <<session, user, isLoading, activeTab, state, db, sends, load, wipe,
                   chatProps, clock, boot>>
    /\ UNCHANGED budgetLog
    /\ UNCHANGED <<isTyping, mountedSends>>
    /\ UNCHANGED dashVars

(* ------------------------------ State Store ----------------------------- *)
\* a variant of withMessage: the new message is put in front
withMessage_Prepend(st, message) ==
    [st EXCEPT !.chatHistory = <<message>> \o st.chatHistory]

\* handleAddChatMessage: the state after the append
withMessage(st, message) ==
    [st EXCEPT !.chatHistory = Append(st.chatHistory, message)]

\* a variant of HandleUpdateBudget: the budget change waits for the sends that
\* are outstanding
HandleUpdateBudget_AfterTheSends(category, limit) ==
    /\ UIVisible /\ activeTab = "settings"
    /\ CanCall
    /\ \A s \in SendIds : sends[s].pc \in {"idle", "done"}
    /\ state' = [state EXCEPT !.budgets = upsertBudget(state.budgets, category, limit)]
    /\ net' = Append(net, SaveBudgetsCall(state'.budgets))
    /\ UNCHANGED <<session, user, isLoading, activeTab, db, sends, load, wipe,
                   chatProps, clock, boot>>
    /\ budgetLog' = IF budgetLog.deleted = category
                    THEN [deleted |-> "", readded |-> category, limit |-> limit]
                    ELSE NoLog
    /\ UNCHANGED <<isTyping, mountedSends>>
    /\ UNCHANGED dashVars

\* handleUpdateBudget(category, limit), called by Settings.handleInputChange
\* and Settings.handleAddCategory
HandleUpdateBudget(category, limit) ==
    /\ UIVisible /\ activeTab = "settings"
    /\ CanCall
    /\ state' = [state EXCEPT !.budgets = upsertBudget(state.budgets, category, limit)]
    /\ net' = Append(net, SaveBudgetsCall(state'.budgets))
    /\ UNCHANGED <<session, user, isLoading, activeTab, db, sends, load, wipe,
                   chatProps, clock, boot>>
    /\ budgetLog' = IF budgetLog.deleted = category
                    THEN [deleted |-> "", readded |-> category, limit |-> limit]
                    ELSE NoLog
    /\ UNCHANGED <<isTyping, mountedSends>>
    /\ UNCHANGED dashVars

\* handleDeleteBudget(category), called by the remove button of a budget row
\* (so the category is one the list holds)
HandleDeleteBudget(category) ==
    /\ UIVisible /\ activeTab = "settings"
    /\ CanCall
    /\ \E i \in 1..Len(state.budgets) : state.budgets[i].category = category
    /\ state' = [state EXCEPT !.budgets = removeBudget(state.budgets, category)]
    /\ net' = Append(net, DeleteBudgetCall(category))
    /\ UNCHANGED <<session, user, isLoading, activeTab, db, sends, load, wipe,
                   chatProps, clock, boot>>
    /\ budgetLog' = [deleted |-> category, readded |-> "", limit |-> 0]
    /\ UNCHANGED <<isTyping, mountedSends>>
    /\ UNCHANGED dashVars

\* a variant of wipedState: the budgets of the previous state are kept
wipedState_KeepBudgets ==
    [expenses |-> <<>>, budgets |-> state.budgets,
     chatHistory |-> <<Message("assistant", WipeText, 0, <<>>)>>]

\* the state handleClearData sets
wipedState ==
    [expenses |-> <<>>, budgets |-> DEFAULT_BUDGETS,
     chatHistory |-> <<Message("assistant", WipeText, 0, <<>>)>>]

\* handleClearData up to its await: the user confirms, clearUserData() is called
HandleClearData ==
    /\ UIVisible /\ activeTab = "settings"
    /\ wipe = "idle"
    /\ wipe' = "clearing"
    /\ UNCHANGED <<session, user, isLoading, activeTab, state, db, sends, load, net,
                   chatProps, clock, boot>>
    /\ UNCHANGED budgetLog
    /\ UNCHANGED <<isTyping, mountedSends>>
    /\ UNCHANGED dashVars

\* apiService.clearUserData: three deletes, each of which may fail on its own;
\* without a user none is made
ClearUserData(delExpenses, delChat, delBudgets) ==
    /\ wipe = "clearing"
    /\ wipe' = "cleared"
    /\ db' = IF ~session THEN db
             ELSE [db EXCEPT
                     !.expenses = IF delExpenses THEN <<>> ELSE @,
                     !.chat = IF delChat THEN {} ELSE @,
                     !.budgets = IF delBudgets THEN <<>> ELSE @]
    /\ UNCHANGED <<session, user, isLoading, activeTab, state, sends, load, net,
                   chatProps, clock, boot>>
    /\ UNCHANGED budgetLog
    /\ UNCHANGED <<isTyping, mountedSends>>
    /\ UNCHANGED dashVars

\* handleClearData after its await (whether clearUserData threw or not): setState
ClearDataDone ==
    /\ wipe = "cleared"
    /\ wipe' = "idle"
    /\ state' = wipedState
    /\ UNCHANGED <<session, user, isLoading, activeTab, db, sends, load, net,
                   chatProps, clock, boot>>
    /\ budgetLog' = NoLog
    /\ UNCHANGED <<isTyping, mountedSends>>
    /\ UNCHANGED dashVars

(* ------------------------- Expense Intake Pipeline ---------------------- *)
\* a variant of hasNumericAmount: only the null test, the typeof test forgotten
hasNumericAmount_NullTestOnly(parsed) == ~parsed.isNull

\* handleSend's test of the parser's answer: parsed && typeof parsed.amount === 'number'
hasNumericAmount(parsed) == ~parsed.isNull /\ parsed.amount.type = "number"

\* String.prototype.trim on the texts of SendTexts
trim(str) == IF str = "   " THEN "" ELSE str

\* the inputValue in the closure of the handleSend the mount effect kept
MountInputValue == ""

\* handleSend's textToSend: textOverride || inputValue.  A typed send has no
\* override and reads the input; a voice send passes the transcript and falls
\* back on the inputValue of its closure when the transcript is empty
textToSend(voice, text) == IF voice /\ text = "" THEN MountInputValue ELSE text

\* a variant of EndSend: the setIsTyping(false) is forgotten
EndSend_KeepsTyping(s) ==
    /\ isTyping' = isTyping
    /\ mountedSends' = mountedSends \ {s}

\* the last statement of handleSend: setIsTyping(false), on the ChatInterface
\* that started the send if it is still mounted
EndSend(s) ==
    /\ isTyping' = IF s \in mountedSends THEN FALSE ELSE isTyping
    /\ mountedSends' = mountedSends \ {s}

\* a variant of HandleSend: no send is started while isTyping, by whatever path
HandleSend_WhilePendingRefused(s, voice, text) ==
    /\ ChatVisible
    /\ ~isTyping
    /\ sends[s].pc = "idle"
    /\ \A r \in SendIds : r < s => sends[r].pc # "idle"
    /\ IF trim(textToSend(voice, text)) = ""
       THEN \* if (!textToSend.trim()) return
            /\ sends' = [sends EXCEPT ![s] = DoneSend]
            /\ UNCHANGED <<state, net, clock, isTyping, mountedSends>>
       ELSE /\ CanCall
            /\ LET message == Message("user", textToSend(voice, text), clock, <<>>)
               IN /\ state' = withMessage(state, message)
                  /\ net' = Append(net, SaveChatMessageCall(message))
            /\ clock' = clock + 1
            /\ isTyping' = TRUE
            /\ mountedSends' = mountedSends \cup {s}
            /\ sends' = [sends EXCEPT ![s] =
                    [pc |-> "parsing",
                     expenses |-> IF voice THEN chatProps.expenses ELSE state.expenses,
                     budgets |-> IF voice THEN chatProps.budgets ELSE state.budgets,
                     parsed |-> NoParsed, saved |-> NoExpense]]
    /\ UNCHANGED <<session, user, isLoading, activeTab, db, load, wipe, chatProps, boot>>
    /\ UNCHANGED budgetLog
    /\ UNCHANGED dashVars

\* ChatInterface.handleSend up to its first await: the user message is appended
\* and parseExpenseMessage is called.  A typed send runs the handleSend of the
\* current render; a voice send runs the one the mount effect kept.
HandleSend(s, voice, text) ==
    /\ ChatVisible
    /\ sends[s].pc = "idle"
    /\ \A r \in SendIds : r < s => sends[r].pc # "idle"
    /\ IF trim(textToSend(voice, text)) = ""
       THEN \* if (!textToSend.trim()) return
            /\ sends' = [sends EXCEPT ![s] = DoneSend]
            /\ UNCHANGED <<state, net, clock, isTyping, mountedSends>>
       ELSE /\ CanCall
            /\ LET message == Message("user", textToSend(voice, text), clock, <<>>)
               IN /\ state' = withMessage(state, message)
                  /\ net' = Append(net, SaveChatMessageCall(message))
            /\ clock' = clock + 1
            /\ isTyping' = TRUE
            /\ mountedSends' = mountedSends \cup {s}
            /\ sends' = [sends EXCEPT ![s] =
                    [pc |-> "parsing",
                     expenses |-> IF voice THEN chatProps.expenses ELSE state.expenses,
                     budgets |-> IF voice THEN chatProps.budgets ELSE state.budgets,
                     parsed |-> NoParsed, saved |-> NoExpense]]
    /\ UNCHANGED <<session, user, isLoading, activeTab, db, load, wipe, chatProps, boot>>
    /\ UNCHANGED budgetLog
    /\ UNCHANGED dashVars

\* the send button: disabled without text to send and while isTyping;
\* its click calls handleSend()
ClickSend(s, text) ==
    /\ trim(text) # ""
    /\ ~isTyping
    /\ HandleSend(s, FALSE, text)

\* parseExpenseMessage returns.  With a numeric amount addExpense is called and
\* handleAddExpense calls apiService.saveExpense; otherwise (null, or no numeric
\* amount) the else branch appends the request to restate the amount.
ParseReturn(s, parsed) ==
    /\ sends[s].pc = "parsing"
    /\ IF hasNumericAmount(parsed)
       THEN /\ sends' = [sends EXCEPT
                           ![s].pc = "saving",
                           ![s].parsed = [amount |-> parsed.amount.value,
                                          category |-> parsed.category,
                                          description |-> parsed.description,
                                          date |-> parsed.date]]
            /\ UNCHANGED <<state, net, clock, isTyping, mountedSends>>
       ELSE /\ CanCall
            /\ LET message == Message("assistant", ParseFailText, clock, <<>>)
               IN /\ state' = withMessage(state, message)
                  /\ net' = Append(net, SaveChatMessageCall(message))
            /\ clock' = clock + 1
            /\ sends' = [sends EXCEPT ![s] = DoneSend]
            /\ EndSend(s)
    /\ UNCHANGED <<session, user, isLoading, activeTab, db, load, wipe, chatProps, boot>>
    /\ UNCHANGED budgetLog
    /\ UNCHANGED dashVars

\* apiService.saveExpense inserts the row (created_at is the given date, or the
\* database's now() when the parser gave none)
SaveExpenseInsert(s) ==
    /\ sends[s].pc = "saving"
    /\ session
    /\ LET p == sends[s].parsed
           row == [id |-> db.nextId, amount |-> p.amount, category |-> p.category,
                   description |-> p.description,
                   date |-> IF p.date = "" THEN Today ELSE NewDate(p.date)]
       IN /\ p.date = "" \/ IsValidDate(p.date)
          /\ db' = [db EXCEPT !.expenses = Append(@, row), !.nextId = @ + 1]
          /\ sends' = [sends EXCEPT ![s].pc = "saved", ![s].saved = row]
    /\ UNCHANGED <<session, user, isLoading, activeTab, state, load, wipe, net,
                   chatProps, clock, boot>>
    /\ UNCHANGED budgetLog
    /\ UNCHANGED <<isTyping, mountedSends>>
    /\ UNCHANGED dashVars

\* a variant of SaveExpenseNull: the expense is put into the state although no
\* saved row came back
SaveExpenseNull_KeepsExpense(s) ==
    /\ sends[s].pc = "saving"
    /\ ~session \/ sends[s].parsed.date = "" \/ IsValidDate(sends[s].parsed.date)
    /\ CanCall
    /\ LET message == Message("assistant", SaveErrorText, clock, <<>>)
           p == sends[s].parsed
           unsaved == [id |-> 0, amount |-> p.amount, category |-> p.category,
                       description |-> p.description, date |-> Today]
       IN /\ state' = withMessage([state EXCEPT !.expenses = Append(@, unsaved)], message)
          /\ net' = Append(net, SaveChatMessageCall(message))
    /\ clock' = clock + 1
    /\ sends' = [sends EXCEPT ![s] = DoneSend]
    /\ UNCHANGED <<session, user, isLoading, activeTab, db, load, wipe, chatProps, boot>>
    /\ UNCHANGED budgetLog
    /\ EndSend(s)
    /\ UNCHANGED dashVars

\* apiService.saveExpense returns null (no user, or the insert failed):
\* handleAddExpense returns the save error, handleSend appends it
SaveExpenseNull(s) ==
    /\ sends[s].pc = "saving"
    /\ ~session \/ sends[s].parsed.date = "" \/ IsValidDate(sends[s].parsed.date)
    /\ CanCall
    /\ LET message == Message("assistant", SaveErrorText, clock, <<>>)
       IN /\ state' = withMessage(state, message)
          /\ net' = Append(net, SaveChatMessageCall(message))
    /\ clock' = clock + 1
    /\ sends' = [sends EXCEPT ![s] = DoneSend]
    /\ UNCHANGED <<session, user, isLoading, activeTab, db, load, wipe, chatProps, boot>>
    /\ UNCHANGED budgetLog
    /\ EndSend(s)
    /\ UNCHANGED dashVars

\* apiService.saveExpense throws (new Date(specificDate).toISOString() on a date
\* string that is no date): the catch of handleAddExpense returns its error
SaveExpenseThrow(s) ==
    /\ sends[s].pc = "saving"
    /\ session
    /\ sends[s].parsed.date # "" /\ ~IsValidDate(sends[s].parsed.date)
    /\ CanCall
    /\ LET message == Message("assistant", AddErrorText, clock, <<>>)
       IN /\ state' = withMessage(state, message)
          /\ net' = Append(net, SaveChatMessageCall(message))
    /\ clock' = clock + 1
    /\ sends' = [sends EXCEPT ![s] = DoneSend]
    /\ UNCHANGED <<session, user, isLoading, activeTab, db, load, wipe, chatProps, boot>>
    /\ UNCHANGED budgetLog
    /\ EndSend(s)
    /\ UNCHANGED dashVars

\* a variant of SaveExpenseReturn: the saved expense is put in front of the list
SaveExpenseReturn_Prepends(s) ==
    /\ sends[s].pc = "saved"
    /\ CanCall
    /\ LET savedExpense == sends[s].saved
           expenseData == sends[s].parsed
           budgetLeft == budgetLeftOf(sends[s].expenses, sends[s].budgets,
                                      expenseData.category, expenseData.amount)
           message == Message("assistant", GotItText, clock, <<savedExpense, budgetLeft>>)
       IN /\ state' = withMessage(
                         [state EXCEPT !.expenses = <<savedExpense>> \o @], message)
          /\ net' = Append(net, SaveChatMessageCall(message))
    /\ clock' = clock + 1
    /\ sends' = [sends EXCEPT ![s] = DoneSend]
    /\ UNCHANGED <<session, user, isLoading, activeTab, db, load, wipe, chatProps, boot>>
    /\ UNCHANGED budgetLog
    /\ EndSend(s)
    /\ UNCHANGED dashVars

\* apiService.saveExpense returns the saved row: handleAddExpense appends it and
\* computes budgetLeft from the state of its closure; handleSend appends the reply
SaveExpenseReturn(s) ==
    /\ sends[s].pc = "saved"
    /\ CanCall
    /\ LET savedExpense == sends[s].saved
           expenseData == sends[s].parsed
           budgetLeft == budgetLeftOf(sends[s].expenses, sends[s].budgets,
                                      expenseData.category, expenseData.amount)
           message == Message("assistant", GotItText, clock, <<savedExpense, budgetLeft>>)
       IN /\ state' = withMessage(
                         [state EXCEPT !.expenses = Append(@, savedExpense)], message)
          /\ net' = Append(net, SaveChatMessageCall(message))
    /\ clock' = clock + 1
    /\ sends' = [sends EXCEPT ![s] = DoneSend]
    /\ UNCHANGED <<session, user, isLoading, activeTab, db, load, wipe, chatProps, boot>>
    /\ UNCHANGED budgetLog
    /\ EndSend(s)
    /\ UNCHANGED dashVars

(* ----------------------------- specification ---------------------------- *)
\* start-up, state loads and the auth callback
SessionNext ==
    \/ \E e \in BOOLEAN : InitializeApp(e)
    \/ \E e \in BOOLEAN : FetchState(e)
    \/ LoadDone
    \/ OnAuthSession
    \/ OnAuthSignedOut

\* the full wipe
WipeNext ==
    \/ HandleClearData
    \/ \E de \in BOOLEAN, dc \in BOOLEAN, dbu \in BOOLEAN : ClearUserData(de, dc, dbu)
    \/ ClearDataDone

\* the full wipe, its deletes of expenses and chat failing or succeeding together
StoreWipeNext ==
    \/ HandleClearData
    \/ \E ok \in BOOLEAN, dbu \in BOOLEAN : ClearUserData(ok, ok, dbu)
    \/ ClearDataDone

\* the fire-and-forget calls reaching persistence, in any order
MirrorNext ==
    \/ \E i \in 1..MaxNet : MirrorDone(i)
    \/ \E i \in 1..MaxNet : MirrorFail(i)

\* the budget operations of the settings screen
BudgetNext ==
    \/ \E c \in UpsertCategories, l \in UpsertLimits : HandleUpdateBudget(c, l)
    \/ \E c \in UpsertCategories : HandleDeleteBudget(c)

\* the Expense Intake Pipeline
IntakeNext ==
    \/ \E s \in SendIds, voice \in BOOLEAN, text \in UserTexts : HandleSend(s, voice, text)
    \/ \E s \in SendIds, parsed \in ParserResults : ParseReturn(s, parsed)
    \/ \E s \in SendIds : SaveExpenseInsert(s)
    \/ \E s \in SendIds : SaveExpenseNull(s)
    \/ \E s \in SendIds : SaveExpenseThrow(s)
    \/ \E s \in SendIds : SaveExpenseReturn(s)

\* the sends of the specifications that follow one send only
OneSend == {1}

\* one send at a time
OneSendNext ==
    \/ \E s \in OneSend, voice \in BOOLEAN, text \in UserTexts : HandleSend(s, voice, text)
    \/ \E s \in OneSend, parsed \in ParserResults : ParseReturn(s, parsed)
    \/ \E s \in OneSend : SaveExpenseInsert(s)
    \/ \E s \in OneSend : SaveExpenseNull(s)
    \/ \E s \in OneSend : SaveExpenseThrow(s)
    \/ \E s \in OneSend : SaveExpenseReturn(s)

\* SpecStore: the State Store's budgets under budget operations, wipes, sign-in
\* and sign-out, state loads and the mirror calls to persistence
StoreNext ==
    \/ SessionNext
    \/ StoreWipeNext
    \/ MirrorNext
    \/ BudgetNext
    \/ SetActiveTab("settings")

SpecStore == Init /\ [][StoreNext]_vars

\* SpecIntake: overlapping sends (typed and by voice) within one session of a
\* new user
IntakeSpecNext ==
    \/ \E e \in BOOLEAN : InitializeApp(e)
    \/ \E e \in BOOLEAN : FetchState(e)
    \/ LoadDone
    \/ MirrorNext
    \/ IntakeNext

SpecIntake == InitNewUser /\ [][IntakeSpecNext]_vars

\* SpecSession: one send of a new user followed through wipes, sign-outs,
\* sign-ins and loads
SessionSpecNext ==
    \/ SessionNext
    \/ WipeNext
    \/ MirrorNext
    \/ OneSendNext
    \/ \E tab \in {"dashboard", "chat", "settings"} : SetActiveTab(tab)

SpecSession == InitNewUser /\ [][SessionSpecNext]_vars

\* SpecOneSession: one signed-in session of a new user, from start-up to the
\* sign-out: a send started on the chat screen, then the budget operations and
\* the wipe of the settings screen, with the mirror calls to persistence
OneSessionNext ==
    \/ \E e \in BOOLEAN : InitializeApp(e)
    \/ \E e \in BOOLEAN : FetchState(e)
    \/ LoadDone
    \/ OnAuthSignedOut
    \/ MirrorNext
    \/ BudgetNext
    \/ OneSendNext
    \/ StoreWipeNext
    \/ SetActiveTab("settings")

SpecOneSession == InitNewUser /\ [][OneSessionNext]_vars

\* SpecChat: the chat screen of a new user in one session: sends by the Enter
\* key, by voice and by the send button, of texts and of blank input, that may
\* overlap.  Every call to the parser and to persistence returns.
\* The sends of SpecChat: a first and a second one
ChatSends == {1, 2}

ChatNext ==
    \/ \E e \in BOOLEAN : InitializeApp(e)
    \/ \E e \in BOOLEAN : FetchState(e)
    \/ LoadDone
    \/ MirrorNext
    \/ \E s \in ChatSends, voice \in BOOLEAN, text \in SendTexts : HandleSend(s, voice, text)
    \/ \E s \in ChatSends, text \in UserTexts : ClickSend(s, text)
    \/ \E s \in ChatSends, parsed \in ChatParserResults : ParseReturn(s, parsed)
    \/ \E s \in ChatSends : SaveExpenseInsert(s)
    \/ \E s \in ChatSends : SaveExpenseNull(s)
    \/ \E s \in ChatSends : SaveExpenseThrow(s)
    \/ \E s \in ChatSends : SaveExpenseReturn(s)

\* the calls a send awaits return: the parser, then persistence's insert
SendReturns(s) ==
    \/ \E parsed \in ChatParserResults : ParseReturn(s, parsed)
    \/ SaveExpenseInsert(s)
    \/ SaveExpenseNull(s)
    \/ SaveExpenseThrow(s)
    \/ SaveExpenseReturn(s)

SpecChat ==
    /\ InitNewUser
    /\ [][ChatNext]_vars
    /\ WF_vars(MirrorNext)
    /\ \A s \in ChatSends : WF_vars(SendReturns(s))

\* SpecStartup: application start-up of a new or a returning user, with or
\* without a session, followed by the auth callback's sign-ins and sign-outs,
\* their state loads and one send.  The calls to the auth collaborator and to
\* persistence return.
StartupNext ==
    \/ SessionNext
    \/ MirrorNext
    \/ OneSendNext

SpecStartup ==
    /\ Init
    /\ [][StartupNext]_vars
    /\ WF_vars(\E e \in BOOLEAN : InitializeApp(e))
    /\ WF_vars(\E e \in BOOLEAN : FetchState(e))
    /\ WF_vars(LoadDone)

\* SpecBudgets: the budget operations of a signed-in session whose mirror calls
\* all succeed, in whatever order they reach persistence, and the reloads of
\* the state from persistence
BudgetsNext ==
    \/ \E e \in BOOLEAN : InitializeApp(e)
    \/ \E e \in BOOLEAN : FetchState(e)
    \/ LoadDone
    \/ OnAuthSession
    \/ SetActiveTab("settings")
    \/ BudgetNext
    \/ \E i \in 1..MaxNet : MirrorDone(i)

SpecBudgets == Init /\ [][BudgetsNext]_vars

(* ------------------------- the Dashboard's events ----------------------- *)
\* the App renders the Dashboard with one more expense (a send was saved)
ExpenseAdded(e) ==
    /\ Len(props.expenses) < MaxExpenses
    /\ props' = [props EXCEPT !.expenses = Append(@, e)]
    /\ view' = Render(props', startDate, endDate)
    /\ UNCHANGED <<startDate, endDate, now, timezone>>
    /\ UNCHANGED appVars

\* the From input: setStartDate(e.target.value)
SetStartDate(value) ==
    /\ value # startDate
    /\ startDate' = value
    /\ view' = Render(props, startDate', endDate)
    /\ UNCHANGED <<props, endDate, now, timezone>>
    /\ UNCHANGED appVars

\* the To input: setEndDate(e.target.value)
SetEndDate(value) ==
    /\ value # endDate
    /\ endDate' = value
    /\ view' = Render(props, startDate, endDate')
    /\ UNCHANGED <<props, startDate, now, timezone>>
    /\ UNCHANGED appVars

\* the clear button, shown while a date is set: clearFilters
clearFilters ==
    /\ startDate # "" \/ endDate # ""
    /\ startDate' = ""
    /\ endDate' = ""
    /\ view' = Render(props, startDate', endDate')
    /\ UNCHANGED <<props, now, timezone>>
    /\ UNCHANGED appVars

\* the Dashboard is mounted with no expenses yet, in some time zone at some time
InitDashboard ==
    /\ session = TRUE
    /\ user = TRUE
    /\ isLoading = FALSE
    /\ activeTab = "dashboard"
    /\ state = EmptyState
    /\ db = NewUserDb
    /\ sends = [s \in SendIds |-> IdleSend]
    /\ load = IdleLoad
    /\ wipe = "idle"
    /\ net = <<>>
    /\ chatProps = [expenses |-> <<>>, budgets |-> DEFAULT_BUDGETS]
    /\ clock = 1
    /\ boot = "done"
    /\ budgetLog = NoLog
    /\ isTyping = FALSE
    /\ mountedSends = {}
    /\ props \in [expenses : {<<>>}, budgets : BudgetLists]
    /\ startDate = ""
    /\ endDate = ""
    /\ now \in NowInstants
    /\ timezone \in Timezones
    /\ view = Render(props, startDate, endDate)

\* SpecDashboard: the Dashboard's computations over the expense lists, budget
\* lists, date ranges, clocks and time zones of the input sets
DashboardNext ==
    \/ \E e \in ExpensePool : ExpenseAdded(e)
    \/ \E value \in FilterDates : SetStartDate(value)
    \/ \E value \in FilterDates : SetEndDate(value)
    \/ clearFilters

SpecDashboard == InitDashboard /\ [][DashboardNext]_vars

(* -------------------------------- claims -------------------------------- *)
\* the last message of a chat history
LastMessage(chat) == chat[Len(chat)]

\* chat2 is chat with exactly one message added at its end, an assistant message
\* with the given text and no metadata
GainsAssistantText(chat, chat2, text) ==
    /\ Len(chat2) = Len(chat) + 1
    /\ SubSeq(chat2, 1, Len(chat)) = chat
    /\ LastMessage(chat2).role = "assistant"
    /\ LastMessage(chat2).text = text
    /\ LastMessage(chat2).meta = <<>>

\* C1: when the parser call of a send fails (null) or returns an object whose
\* amount is not a number, that step creates no Expense, makes no insert-expense
\* call (the send is over, persistence is untouched), leaves the budgets as they
\* are, and adds exactly one assistant message, the request to restate the amount.
C1_ParseFailureOnlyAsksAgain ==
    [][\A s \in SendIds, parsed \in ParserResults :
          (/\ parsed.isNull \/ parsed.amount.type # "number"
           /\ ParseReturn(s, parsed))
          => /\ state'.expenses = state.expenses
             /\ state'.budgets = state.budgets
             /\ db' = db
             /\ sends'[s].pc = "done"
             /\ GainsAssistantText(state.chatHistory, state'.chatHistory, ParseFailText)
      ]_vars

\* C1 witness: a send ended with the request to restate the amount while the
\* State Store holds an expense of an earlier send
C1_Witness ==
    /\ Len(state.chatHistory) >= 2
    /\ LastMessage(state.chatHistory).text = ParseFailText
    /\ state.chatHistory[Len(state.chatHistory) - 1].role = "user"
    /\ state.expenses # <<>>

\* C3: for every successfully saved expense the reported budgetLeft is
\* L - (P + a): a the new amount, P the current-month spend of the category in
\* the State Store immediately before the append, L the limit of the category's
\* budget in the State Store at that moment (0 without a budget).
C3_BudgetLeftOfCurrentState ==
    [][\A s \in SendIds :
          (sends[s].pc = "saved" /\ sends'[s].pc = "done")
          => LET a == sends[s].parsed.amount
                 c == sends[s].parsed.category
                 reply == LastMessage(state'.chatHistory)
             IN /\ Len(reply.meta) = 2
                /\ reply.meta[2] =
                      limitOf(state.budgets, c) - (spentBefore(state.expenses, c) + a)
      ]_vars

\* the steps that replace the whole state
WipeStep == wipe = "cleared" /\ wipe' = "idle"
SignOutStep == session /\ ~session'
LoadStep == load.pc = "fetched" /\ load'.pc = "idle"

\* C2: when the parse of a send succeeded and apiService.saveExpense gives no
\* saved row, the step leaves the expenses and the budgets of the State Store (and
\* the expenses of persistence) as they are and adds exactly one assistant
\* message: the save error when saveExpense returned null, which is another text
\* than the request to restate the amount.
C2_SaveFailureOnlyReports ==
    [][\A s \in SendIds :
          (sends[s].pc = "saving" /\ sends'[s].pc = "done")
          => LET date == sends[s].parsed.date
                 threw == session /\ date # "" /\ ~IsValidDate(date)
             IN /\ state'.expenses = state.expenses
                /\ state'.budgets = state.budgets
                /\ db'.expenses = db.expenses
                /\ GainsAssistantText(state.chatHistory, state'.chatHistory,
                                      IF threw THEN AddErrorText ELSE SaveErrorText)
                /\ LastMessage(state'.chatHistory).text # ParseFailText
      ]_vars

\* C2 witness: the save error was reported for a send whose save found no user
C2_Witness ==
    /\ state.chatHistory # <<>>
    /\ LastMessage(state.chatHistory).text = SaveErrorText
    /\ sends[1].pc = "done"
    /\ ~session

\* C4: the step that ends a full wipe leaves the State Store with no expenses,
\* the default budgets and a chat history of exactly one assistant message, the
\* wipe confirmation, whatever the state before and whether clearUserData
\* deleted the rows or not.
C4_WipeResetsTheStore ==
    [][WipeStep
       => /\ state'.expenses = <<>>
          /\ state'.budgets = DEFAULT_BUDGETS
          /\ Len(state'.chatHistory) = 1
          /\ state'.chatHistory[1].role = "assistant"
          /\ state'.chatHistory[1].text = WipeText
      ]_vars

\* C4 witness: a wipe has ended although persistence still holds the expenses
\* (the delete failed)
C4_Witness ==
    /\ wipe = "idle"
    /\ Len(state.chatHistory) = 1
    /\ state.chatHistory[1].text = WipeText
    /\ state.expenses = <<>>
    /\ db.expenses # <<>>

\* C5: in every reachable state no two budget entries of the State Store have
\* category names that are equal ignoring case.
C5_UniqueCategoriesIgnoringCase ==
    \A i, j \in 1..Len(state.budgets) :
        toLowerCase(state.budgets[i].category) = toLowerCase(state.budgets[j].category)
        => i = j

\* C6: budget upsert(category, limit): if an entry's category equals the given one
\* ignoring case, that entry gets the limit and keeps its name and place, and the
\* length is unchanged; otherwise {category, limit} is appended.  Every other
\* entry, the expenses and the chat history are unchanged.
C6_UpsertReplacesOrAppends ==
    [][\A c \in UpsertCategories, l \in UpsertLimits :
          HandleUpdateBudget(c, l)
          => LET old == state.budgets
                 new == state'.budgets
                 hits == {i \in 1..Len(old) :
                            toLowerCase(old[i].category) = toLowerCase(c)}
             IN /\ state'.expenses = state.expenses
                /\ state'.chatHistory = state.chatHistory
                /\ IF hits # {}
                   THEN /\ Len(new) = Len(old)
                        /\ \E i \in hits :
                              /\ new[i] = [category |-> old[i].category, limit |-> l]
                              /\ \A j \in 1..Len(old) : j # i => new[j] = old[j]
                   ELSE new = Append(old, [category |-> c, limit |-> l])
      ]_vars

\* C6 witness: upsert("food") has set the limit of the entry named "Food", in place,
\* in a State Store that holds an expense
C6_Witness ==
    /\ Len(state.budgets) = 7
    /\ state.budgets[1] = [category |-> "Food", limit |-> 2000]
    /\ state.expenses # <<>>
    /\ net # <<>>
    /\ net[Len(net)].op = "saveBudgets"

\* C7: budget delete(category) removes exactly one entry, the one whose category
\* is exactly the key, and leaves the other entries and their order, the expenses
\* and the chat history unchanged.
C7_DeleteRemovesTheOneEntry ==
    [][\A c \in UpsertCategories :
          HandleDeleteBudget(c)
          => LET old == state.budgets
                 new == state'.budgets
             IN /\ state'.expenses = state.expenses
                /\ state'.chatHistory = state.chatHistory
                /\ Len(new) = Len(old) - 1
                /\ \E k \in 1..Len(old) :
                      /\ old[k].category = c
                      /\ \A j \in 1..Len(new) :
                            new[j] = IF j < k THEN old[j] ELSE old[j + 1]
      ]_vars

\* C7 witness: "Food" was deleted from a list that also held "food"; "food" stays
C7_Witness ==
    /\ budgetLog.deleted = "Food"
    /\ \E i \in 1..Len(state.budgets) : state.budgets[i].category = "food"
    /\ \A i \in 1..Len(state.budgets) : state.budgets[i].category # "Food"

\* C8: after delete(C) and then upsert(C, L) the State Store holds exactly one
\* entry for C and its limit is L, also after the state was reloaded from
\* persistence.
C8_ReaddedBudgetStays ==
    budgetLog.readded # ""
    => LET hits == {i \in 1..Len(state.budgets) :
                      state.budgets[i].category = budgetLog.readded}
       IN /\ Cardinality(hits) = 1
          /\ \A i \in hits : state.budgets[i].limit = budgetLog.limit

\* whether a sequence starts with another
IsPrefix(a, b) == Len(a) <= Len(b) /\ SubSeq(b, 1, Len(a)) = a

\* C9 as claimed: every step that is not the end of a full wipe keeps the chat
\* history as a prefix of the next one.
C9_AppendOnlyButForWipe ==
    [][~WipeStep => IsPrefix(state.chatHistory, state'.chatHistory)]_vars

\* C9 as amended: every step that is not the end of a full wipe, a sign-out or the
\* end of a state load keeps the chat history as a prefix of the next one.
C9_AppendOnlyButForResets ==
    [][~(WipeStep \/ SignOutStep \/ LoadStep)
       => IsPrefix(state.chatHistory, state'.chatHistory)]_vars

\* C9 witness: a send has appended its two messages behind the loaded greeting
C9_Witness ==
    /\ Len(state.chatHistory) >= 3
    /\ state.chatHistory[1].text = GreetingText
    /\ state.chatHistory[2].role = "user"
    /\ LastMessage(state.chatHistory).role = "assistant"

\* C10: the step in which the session ends resets the State Store to no expenses,
\* the default budgets and no chat history, and clears the user.
C10_SignOutResets ==
    [][SignOutStep
       => /\ state'.expenses = <<>>
          /\ state'.budgets = DEFAULT_BUDGETS
          /\ state'.chatHistory = <<>>
          /\ user' = FALSE
      ]_vars

\* C10 witness: signed out and reset while a send and a load are outstanding
C10_Witness ==
    /\ ~session /\ ~user
    /\ state = EmptyState
    /\ sends[1].pc \in {"parsing", "saving", "saved"}
    /\ load.pc # "idle"

\* the step in which saveExpense's answer reaches handleAddExpense
SaveReturnStep(s) == sends[s].pc = "saved" /\ sends'[s].pc = "done"

\* C11: for every send whose parse and insert-expense both succeeded, the step
\* in which saveExpense's answer arrives appends exactly the record persistence
\* returned at the end of the expense list, appends exactly one assistant
\* message whose metadata holds that record and the budgetLeft handleAddExpense
\* computed, and leaves the budgets alone; within a session the expense list
\* changes in no other step.
C11_SavedExpenseAppended ==
    [][/\ \A s \in SendIds : SaveReturnStep(s) =>
            LET saved == sends[s].saved
                p == sends[s].parsed
                last == LastMessage(state'.chatHistory)
            IN /\ \E i \in 1..Len(db.expenses) : db.expenses[i] = saved
               /\ saved.amount = p.amount /\ saved.category = p.category
               /\ state'.expenses = Append(state.expenses, saved)
               /\ Len(state'.chatHistory) = Len(state.chatHistory) + 1
               /\ IsPrefix(state.chatHistory, state'.chatHistory)
               /\ last.role = "assistant"
               /\ last.meta = <<saved, budgetLeftOf(sends[s].expenses, sends[s].budgets,
                                                     p.category, p.amount)>>
               /\ state'.budgets = state.budgets
       /\ state'.expenses # state.expenses =>
            LoadStep \/ \E s \in SendIds : SaveReturnStep(s)
      ]_vars

\* two sends were saved: the second expense stands behind the first and the
\* last reply carries it
C11_Witness ==
    /\ Len(state.expenses) = 2
    /\ state.expenses[1].id # state.expenses[2].id
    /\ Len(state.chatHistory) > 0
    /\ Len(LastMessage(state.chatHistory).meta) = 2
    /\ LastMessage(state.chatHistory).meta[1] = state.expenses[2]

\* a fire-and-forget call ends without having written anything: it failed, or
\* it found no user
MirrorFailStep == Len(net') < Len(net) /\ db' = db

\* C12: when the mirror call of a budget upsert, a budget delete or a chat
\* append fails, the State Store keeps what the operation put there (no roll
\* back) and the failure changes nothing else in memory.
C12_MirrorFailureKeepsMemory ==
    [][MirrorFailStep
       => /\ state' = state
          /\ UNCHANGED <<user, isLoading, activeTab, sends, load, wipe, chatProps>>
      ]_vars

\* C12 witness: the mirror calls of a budget upsert and of a chat message have
\* failed (persistence holds neither), and the State Store still shows both
C12_Witness ==
    /\ session /\ UIVisible
    /\ net = <<>>
    /\ wipe = "idle"
    /\ db.budgets = <<>> /\ db.chat = {}
    /\ state.budgets = upsertBudget(DEFAULT_BUDGETS, "Food", 2000)
    /\ Len(state.chatHistory) > 1
    /\ LastMessage(state.chatHistory).role = "user"

\* C13: without an authenticated user every persistence call is a no-op: no
\* step writes to persistence, fetchState answers the default state (no
\* expenses, the default budgets, the one greeting), and saveExpense answers
\* null, so that the send adds no expense but reports the save error.
C13_NoUserNoPersistence ==
    [][~session
       => /\ db' = db
          /\ (load.pc = "fetching" /\ load'.pc = "fetched"
                => /\ load'.data.expenses = <<>>
                   /\ load'.data.budgets = DEFAULT_BUDGETS
                   /\ Len(load'.data.chatHistory) = 1
                   /\ load'.data.chatHistory[1].text = GreetingText)
          /\ \A s \in SendIds :
                sends[s].pc = "saving" /\ sends'[s].pc # "saving"
                => /\ sends'[s].pc = "done"
                   /\ state'.expenses = state.expenses
                   /\ GainsAssistantText(state.chatHistory, state'.chatHistory,
                                         SaveErrorText)
      ]_vars

\* C13 witness: after the sign-out the wipe's deletes, the send's saveExpense
\* and the mirror call of its reply have all run, and persistence still holds
\* the chat row written before the sign-out and nothing newer
C13_Witness ==
    /\ ~session
    /\ wipe = "cleared"
    /\ net = <<>>
    /\ sends[1].pc = "done"
    /\ state.expenses = <<>> /\ db.expenses = <<>>
    /\ Len(state.chatHistory) > 0
    /\ LastMessage(state.chatHistory).text = SaveErrorText
    /\ db.chat # {}
    /\ LastMessage(state.chatHistory) \notin db.chat

\* a budget operation of the settings screen
BudgetOpStep == activeTab = "settings" /\ Len(net') > Len(net)
\* apiService.fetchState answers
FetchStep == load.pc = "fetching" /\ load'.pc = "fetched"

\* C14 as stated: in a session in which persistence holds no budget rows for
\* the user, the budget list of the State Store is the default set.
C14_DefaultBudgetsWithoutRows ==
    Len(db.budgets) = 0 => state.budgets = DEFAULT_BUDGETS

\* C14 amended: the default set is the budget list at application start, after
\* a sign-out, after a full wipe and after a state load whose fetch found no
\* user, failed, or found no budget rows; from then on only a budget operation,
\* a wipe, a sign-out or a later load changes the list.
C14_DefaultBudgetsAreTheBaseline ==
    [][/\ boot = "start" => state.budgets = DEFAULT_BUDGETS
       /\ SignOutStep \/ WipeStep => state'.budgets = DEFAULT_BUDGETS
       /\ FetchStep /\ (~session \/ Len(db.budgets) = 0)
            => load'.data.budgets = DEFAULT_BUDGETS
       /\ FetchState(TRUE) => load'.data.budgets = DEFAULT_BUDGETS
       /\ LoadStep => state'.budgets = load.data.budgets
       /\ state'.budgets # state.budgets
            => LoadStep \/ WipeStep \/ SignOutStep \/ BudgetOpStep
      ]_vars

\* C14 witness: a signed-in user without budget rows in persistence has been
\* loaded (the greeting is what the fetch answered for the empty chat table),
\* and the budget list is the default set
C14_Witness ==
    /\ session /\ UIVisible
    /\ load.pc = "idle"
    /\ Len(db.budgets) = 0
    /\ state.chatHistory = defaultState.chatHistory
    /\ state.budgets = DEFAULT_BUDGETS

(* ----------------------- claims on the aggregations --------------------- *)
\* the category names of the input sets, and one no expense or budget carries
Categories == {"Food", "food", "Gym", "Other", "Transport", "Bills", "Rent"}

\* the sum of the amounts of the elements of seq at the positions of S
RECURSIVE SumOver(_, _)
SumOver(seq, S) ==
    IF S = {} THEN 0
    ELSE LET i == CHOOSE j \in S : TRUE
         IN seq[i].amount + SumOver(seq, S \ {i})

\* the sum of the limits of the elements of seq at the positions of S
RECURSIVE LimitsOver(_, _)
LimitsOver(seq, S) ==
    IF S = {} THEN 0
    ELSE LET i == CHOOSE j \in S : TRUE
         IN seq[i].limit + LimitsOver(seq, S \ {i})

\* the calendar month an expense's date falls in, in local time, counted in
\* months (12 * year + month)
MonthIndex(local) == local.year * 12 + local.month
ExpenseMonth(e) == MonthIndex(toLocal(DateParse(e.date)))

\* the expenses as handleAddExpense reads them: new Date(e.date) in local fields
LocalDated(expenses) ==
    [i \in 1..Len(expenses) |-> [expenses[i] EXCEPT !.date = toLocal(DateParse(@))]]

\* the categories of a list of expenses, the names of a list of entries
CategoriesOf(expenses) == {expenses[i].category : i \in 1..Len(expenses)}
NamesOf(data) == {data[i].name : i \in 1..Len(data)}
\* the positions of the expenses of a category
PositionsOf(expenses, c) == {i \in 1..Len(expenses) : expenses[i].category = c}

\* C15: the monthly spend of a category (the Dashboard's per-category spend of
\* the current month, and handleAddExpense's spentBefore) is the sum of the
\* amounts of exactly the expenses of that category whose date falls in that
\* month and year; other categories, months and years add nothing.
C15_MonthlySpendIsTheExactSum ==
    \A c \in Categories :
        LET current == MonthIndex(toLocal(now))
            matching == {i \in 1..Len(props.expenses) :
                            /\ props.expenses[i].category = c
                            /\ ExpenseMonth(props.expenses[i]) = current}
        IN /\ startDate = "" /\ endDate = ""
                => categorySpent(view.filteredExpenses, c)
                     = SumOver(props.expenses, matching)
           /\ current = MonthIndex(Today)
                => spentBefore(LocalDated(props.expenses), c)
                     = SumOver(props.expenses, matching)

\* C15 witness: two Food expenses of 2000, of this November and of last year's;
\* the monthly spend of Food counts one of them
C15_Witness ==
    /\ startDate = "" /\ endDate = ""
    /\ MonthIndex(toLocal(now)) = MonthIndex(Today)
    /\ Len(props.expenses) = 2
    /\ \A i \in 1..2 : props.expenses[i].category = "Food"
    /\ SumAmounts(props.expenses) = 4000
    /\ categorySpent(view.filteredExpenses, "Food") = 2000
    /\ spentBefore(LocalDated(props.expenses), "Food") = 2000

\* C16: the remaining balance is the sum of all budget limits minus the sum of
\* the amounts of the filtered expenses, negative whenever the spend exceeds
\* the total limit; the value shown is max(0, balance), never negative; the
\* over-budget indication is raised exactly when the balance is below 0.
C16_BalanceSignedShownClamped ==
    LET limits == LimitsOver(props.budgets, 1..Len(props.budgets))
        spent == SumOver(view.filteredExpenses, 1..Len(view.filteredExpenses))
    IN /\ view.currentBalance = limits - spent
       /\ spent > limits => view.currentBalance < 0
       /\ view.shownBalance = IF view.currentBalance < 0 THEN 0 ELSE view.currentBalance
       /\ view.shownBalance >= 0
       /\ view.overBudget <=> (view.currentBalance < 0)

\* C16 witness: the filtered spend exceeds the total of the default limits:
\* the indication is raised and 0 is shown
C16_Witness ==
    /\ props.budgets = DEFAULT_BUDGETS
    /\ Len(view.filteredExpenses) > 0
    /\ view.totalSpent > view.totalBudget
    /\ view.currentBalance < 0
    /\ view.overBudget
    /\ view.shownBalance = 0

\* C17 as stated: with an empty budget list the breakdown over a non-empty
\* filtered set has exactly one entry for each distinct category present in the
\* filtered expenses, its value the sum of that category's amounts.
C17_OneEntryPerCategoryPresent ==
    props.budgets = <<>> /\ view.filteredExpenses # <<>>
    => /\ NamesOf(view.categoryData) = CategoriesOf(view.filteredExpenses)
       /\ Len(view.categoryData) = Cardinality(CategoriesOf(view.filteredExpenses))
       /\ \A i \in 1..Len(view.categoryData) :
            view.categoryData[i].value =
                SumOver(view.filteredExpenses,
                        PositionsOf(view.filteredExpenses, view.categoryData[i].name))

\* C17 amended: with an empty budget list the breakdown over a non-empty
\* filtered set has exactly one entry for each distinct category present whose
\* summed amounts are greater than zero, its value that sum.
C17_OneEntryPerCategoryWithSpend ==
    props.budgets = <<>> /\ view.filteredExpenses # <<>>
    => LET withSpend == {c \in CategoriesOf(view.filteredExpenses) :
                            SumOver(view.filteredExpenses,
                                    PositionsOf(view.filteredExpenses, c)) > 0}
       IN /\ NamesOf(view.categoryData) = withSpend
          /\ Len(view.categoryData) = Cardinality(withSpend)
          /\ \A i \in 1..Len(view.categoryData) :
                view.categoryData[i].value =
                    SumOver(view.filteredExpenses,
                            PositionsOf(view.filteredExpenses, view.categoryData[i].name))

\* C17 witness: no budgets, filtered expenses of two categories with spend,
\* two entries
C17_Witness ==
    /\ props.budgets = <<>>
    /\ Len(view.filteredExpenses) = 2
    /\ Cardinality(CategoriesOf(view.filteredExpenses)) = 2
    /\ Len(view.categoryData) = 2

\* C18: the trend series has exactly 5 entries, one per calendar month from 4
\* months before the current month to the current month, in that order and
\* across a year boundary; each entry's total is the sum of the amounts of all
\* expenses, of every category, dated in that month and year.
C18_TrendOfFiveMonths ==
    /\ Len(view.trendData) = 5
    /\ \A k \in 1..5 :
        LET month == MonthIndex(toLocal(now)) - (5 - k)
        IN /\ view.trendData[k].name = MonthName(month % 12)
           /\ view.trendData[k].spent =
                SumOver(props.expenses,
                        {i \in 1..Len(props.expenses) :
                            ExpenseMonth(props.expenses[i]) = month})

\* C18 witness: in February 2026 the series runs from October 2025 and its
\* third entry, December 2025, holds the expense of that month
C18_Witness ==
    /\ getMonth(toLocal(now)) = 1
    /\ view.trendData[1].name = "Oct"
    /\ view.trendData[3].name = "Dec"
    /\ view.trendData[3].spent = 700
    /\ view.trendData[5].name = "Feb"
    /\ Len(props.expenses) = 2

\* the calendar day of a Date's fields, counted in days
DayIndex(d) == (d.year * 12 + d.month) * 31 + d.day

\* C19: with a start and/or an end date an expense is included exactly when its
\* date lies between the first instant of the start day and the last instant
\* of the end day (an expense dated at any time of the end day or of the start
\* day is included); with neither, exactly the expenses of the current month
\* and year are included.
C19_DateRangeInclusive ==
    view.filteredExpenses =
        SelectSeq(props.expenses, LAMBDA e :
            LET day == DayIndex(toLocal(DateParse(e.date)))
            IN IF startDate = "" /\ endDate = ""
               THEN ExpenseMonth(e) = MonthIndex(toLocal(now))
               ELSE /\ startDate # "" => day >= DayIndex(DateParse(startDate))
                    /\ day <= DayIndex(IF endDate # "" THEN DateParse(endDate)
                                       ELSE toLocal(now)))

\* the categories of the budgets and of the filtered expenses
UnionOfCategories ==
    {props.budgets[i].category : i \in 1..Len(props.budgets)}
        \cup CategoriesOf(view.filteredExpenses)

Outstanding(s) == sends[s].pc \in {"parsing", "saving", "saved"}

\* the steps of the send s: it starts with a text to send, it returns at once
\* on blank input, it goes on to the save, it ends
SendStartStep(s) == sends[s].pc = "idle" /\ sends'[s].pc = "parsing"
BlankSendStep(s) == sends[s].pc = "idle" /\ sends'[s].pc = "done"
SendGoesOnStep(s) == Outstanding(s) /\ Outstanding(s)'
SendEndStep(s) == Outstanding(s) /\ sends'[s].pc = "done"

\* the chat history gains exactly one message, of the given role, at its end
GainsOneMessage(role) ==
    /\ Len(state'.chatHistory) = Len(state.chatHistory) + 1
    /\ SubSeq(state'.chatHistory, 1, Len(state.chatHistory)) = state.chatHistory
    /\ LastMessage(state'.chatHistory).role = role

\* C21: every send of non-blank text appends exactly one user message (with
\* that text) in the step that calls the parser; while its calls are awaited
\* it appends nothing; the step in which it ends appends exactly one assistant
\* message; when the parser and persistence calls return, every outstanding
\* send ends and isTyping becomes false.  A send of blank text leaves the
\* State Store alone and calls neither the parser nor persistence.
C21_SendAppendsUserThenOneReply ==
    /\ [][\A s \in ChatSends :
            /\ SendStartStep(s) =>
                    /\ GainsOneMessage("user")
                    /\ trim(LastMessage(state'.chatHistory).text) # ""
                    /\ isTyping'
            /\ SendGoesOnStep(s) /\ sends'[s] # sends[s] => state' = state
            /\ SendEndStep(s) => GainsOneMessage("assistant")
            /\ BlankSendStep(s) =>
                    /\ state' = state /\ net' = net /\ db' = db
                    /\ \A r \in ChatSends \ {s} : sends'[r] = sends[r]]_vars
    /\ \A s \in ChatSends : Outstanding(s) ~> (sends[s].pc = "done" /\ ~isTyping)

\* C21 witness: a blank send has returned at once and a send of a text has
\* ended with its reply: the chat holds the greeting, the text and the reply
C21_Witness ==
    /\ sends[1] = DoneSend /\ sends[2] = DoneSend
    /\ Len(state.chatHistory) = 3
    /\ state.chatHistory[2].role = "user"
    /\ state.chatHistory[3].role = "assistant"
    /\ ~isTyping

\* the expenses of a list as a set
ExpensesOf(seq) == {seq[i] : i \in 1..Len(seq)}

\* C22: while a send is outstanding a second send of the same text can be
\* started by the Enter key and by voice (the send button alone is disabled
\* while isTyping); and when both sends have been saved the State Store holds
\* two expenses, one for each row persistence inserted.
C22_DoubleSubmissionIsNotGuarded ==
    /\ \A text \in UserTexts :
          ( /\ ChatVisible /\ CanCall
            /\ Outstanding(1) /\ sends[2].pc = "idle" ) =>
                /\ ENABLED HandleSend(2, FALSE, text)
                /\ ENABLED HandleSend(2, TRUE, text)
                /\ isTyping => ~ENABLED ClickSend(2, text)
    /\ ( /\ \A s \in ChatSends : sends[s].pc = "done"
         /\ Len(db.expenses) = 2 ) =>
                /\ Len(state.expenses) = 2
                /\ state.expenses[1].id # state.expenses[2].id
                /\ ExpensesOf(state.expenses) = ExpensesOf(db.expenses)

\* C22 witness: the same text was sent twice, the second time while the first
\* send was outstanding (its insert was made after the second send's), and the
\* State Store holds two expenses of the same amount, category and description
C22_Witness ==
    /\ \A s \in ChatSends : sends[s].pc = "done"
    /\ Len(state.expenses) = 2
    /\ state.expenses[1].id > state.expenses[2].id
    /\ state.expenses[1].amount = state.expenses[2].amount
    /\ state.expenses[1].description = state.expenses[2].description
    /\ state.chatHistory[2].text = state.chatHistory[3].text
    /\ state.chatHistory[3].role = "user"

\* C23: while the parser call or the insert-expense call of a send is
\* outstanding (it may never return), budget upsert and budget delete are
\* enabled on the settings screen and change the budgets of the State Store in
\* their own step, leaving the waiting send and the chat history as they are;
\* and a further send can be started on the chat screen.
C23_HangStallsOnlyItsSend ==
    sends[1].pc \in {"parsing", "saving"} =>
        /\ (UIVisible /\ activeTab = "settings" /\ CanCall) =>
              /\ \A c \in UpsertCategories, l \in UpsertLimits :
                    ENABLED ( /\ HandleUpdateBudget(c, l)
                              /\ state'.budgets = upsertBudget(state.budgets, c, l)
                              /\ state'.chatHistory = state.chatHistory
                              /\ sends' = sends )
              /\ \A i \in 1..Len(state.budgets) :
                    ENABLED ( /\ HandleDeleteBudget(state.budgets[i].category)
                              /\ Len(state'.budgets) < Len(state.budgets)
                              /\ state'.chatHistory = state.chatHistory
                              /\ sends' = sends )
        /\ (ChatVisible /\ CanCall /\ sends[2].pc = "idle") =>
              \A text \in UserTexts : ENABLED HandleSend(2, FALSE, text)

\* C23 witness: with the insert-expense call of the send still outstanding the
\* limit of Food was set to 2000 on the settings screen, and persistence holds
\* the budget rows
C23_Witness ==
    /\ sends[1].pc = "saving"
    /\ activeTab = "settings"
    /\ limitOf(state.budgets, "Food") = 2000
    /\ \E i \in 1..Len(db.budgets) : db.budgets[i].category = "Food"
    /\ Len(state.chatHistory) = 2

\* the positions of an expense in a list
PlacesOf(seq, e) == {i \in 1..Len(seq) : seq[i] = e}

\* every expense of the list a is in the list b, with the same fields, and two
\* expenses of a are in b in the same order
KeepsExpenses(a, b) ==
    /\ \A i \in 1..Len(a) : PlacesOf(b, a[i]) # {}
    /\ \A i, j \in 1..Len(a) :
          i < j => \E k \in PlacesOf(b, a[i]), l \in PlacesOf(b, a[j]) : k < l

\* C24: an expense appended to the State Store stays in it, with its fields and
\* its place among the other expenses, in every step that is not the end of a
\* full wipe or a sign-out: a state load that completes later keeps it too.
C24_ExpensesStayUntilReset ==
    [][~WipeStep /\ ~SignOutStep => KeepsExpenses(state.expenses, state'.expenses)]_vars

\* C25: every expense of the State Store has an amount of zero or more,
\* whatever number (zero and negative numbers too) the parser answered.
C25_AmountsAreNonNegative ==
    \A i \in 1..Len(state.expenses) : state.expenses[i].amount >= 0

(* -------------------------------- start-up ------------------------------ *)
\* the step of initializeApp
InitStep == boot = "start" /\ boot' = "done"

\* the outcomes of initializeApp: a session was found, no session was found
\* (or the lookup failed and sign-out was invoked)
StartedSignedIn ==
    /\ session' /\ user' /\ isLoading'
    /\ load'.pc = "fetching"
StartedSignedOut ==
    /\ ~session' /\ ~user' /\ ~isLoading'
    /\ load'.pc = "idle"
    /\ state' = EmptyState

\* C26: start-up ends with isLoading false when the auth and persistence calls
\* return.  With a session and no error initializeApp sets the user and starts
\* the state load, which sets the state to what persistence returned; with no
\* session isLoading is false and no user is set (the login screen); with an
\* error of the session lookup sign-out is invoked, no user is set and no load
\* is started.
C26_StartupEndsLoaded ==
    /\ [][/\ InitStep =>
               /\ session => ENABLED (InitializeApp(FALSE) /\ StartedSignedIn)
               /\ ENABLED (InitializeApp(TRUE) /\ StartedSignedOut)
               /\ IF session' THEN session /\ StartedSignedIn ELSE StartedSignedOut
          /\ FetchStep /\ session =>
               \/ load'.data = defaultState
               \/ load'.data.expenses = db.expenses
          /\ LoadStep => ~isLoading' /\ state' = load.data]_vars
    /\ (boot = "start") ~> (boot = "done" /\ ~isLoading)

\* C26 witness: start-up has ended for a returning user with a session: the
\* user is set, the loading flag is false and the State Store holds the
\* expenses and the chat history of persistence
C26_Witness ==
    /\ boot = "done" /\ user /\ ~isLoading
    /\ db = ReturningUserDb
    /\ state.expenses = db.expenses
    /\ state.chatHistory = orderByTimestamp(db.chat)
    /\ state.budgets = DEFAULT_BUDGETS

\* the {category, limit} entries of a budget list, as a set
EntriesOf(budgets) ==
    {[category |-> budgets[i].category, limit |-> budgets[i].limit] :
        i \in 1..Len(budgets)}

\* C27: when every mirror call of the budget upserts and deletes of a signed-in
\* user has completed successfully, a reload of the state from persistence
\* yields the {category, limit} entries of the in-memory budget list.
C27_ReloadYieldsTheBudgets ==
    (user /\ session /\ load.pc = "idle" /\ activeTab = "settings" /\ net = <<>>) =>
        EntriesOf(fetchState(FALSE).budgets) = EntriesOf(state.budgets)

\* C28: while a user is signed in every expense of the in-memory list is among
\* the expenses persistence holds for the user, also while a full wipe or a
\* state load is in progress.
C28_MemoryExpensesArePersisted ==
    user => ExpensesOf(state.expenses) \subseteq ExpensesOf(db.expenses)

\* C29: while no user is signed in the State Store holds no expenses and no
\* chat messages and its budgets are the default set: what a send, an expense
\* save or a state load started before the sign-out does when it completes
\* afterwards changes nothing of it.
C29_SignedOutStoreIsEmpty ==
    ~user => state = EmptyState

\* C30: isTyping is true in every state in which a send is outstanding (its
\* parser or persistence call has not returned), so that the send button is
\* disabled as long as any send is outstanding.
C30_TypingWhileAnySendOutstanding ==
    (ChatVisible /\ \E s \in ChatSends : Outstanding(s)) =>
        /\ isTyping
        /\ \A s \in ChatSends, text \in UserTexts : ~ENABLED ClickSend(s, text)

====
